---- MODULE Spec2Model ----
(***************************************************************************)
(* Verification engine of backend/main/text.py: the Step / MessageStep     *)
(* dispatch (Page.check_step, Step.check_with_messages), the structural    *)
(* matcher (Step.tree_matches), the pre-checks of ExerciseStep.check, the  *)
(* build-time normaliser (clean_step_class) and the page registry          *)
(* (PageMeta.__init__).                                                    *)
(***************************************************************************)
EXTENDS Integers, Sequences, FiniteSets, TLC

VARIABLES
    pc,             \* position of the check_step call in flight: "returned" when
                    \* check_with_messages returned, "caught" when check_step
                    \* handled an exception, "raised" when one left check_step
    step,           \* the Step class named by code_entry['step_name']
    sub,            \* the submission: step.args
    raw,            \* value returned by self.check()
    result,         \* the local `result` of check_with_messages after line 261
    idx,            \* position of the scan over self.messages
    rechecked,      \* messages whose check_message was invoked, in order
    ran,            \* number of check_exercise invocations made by self.check()
    lowered,        \* whether the lower-cased comparison was evaluated
    verdict,        \* value check_step returned
    fault,          \* exception that left check_step
    pages,          \* the module-level dict `pages`
    page_slugs_list,\* the module-level list `page_slugs_list`
    defined,        \* the Page subclass definitions executed so far, in order
    building,       \* the page whose PageMeta.__init__ is running (0: none)
    todo,           \* entries of its __dict__ that are steps, still to visit
    cleaned,        \* outcome of the clean_step_class call of this iteration
    buildFault,     \* an AssertionError ended the build
    heap,           \* the objects holding test inputs, by reference
    tests,          \* cls.tests: the references of the declared inputs
    tpc,            \* per call: position in the loop of test_exercise
    tcase,          \* per call: index of the test case at hand
    given,          \* per call: the reference passed to the candidate
    seen            \* per call: the inputs the candidate received so far

vars == <<pc, step, sub, raw, result, idx, rechecked, ran, lowered, verdict,
          fault, pages, page_slugs_list, defined, building, todo, cleaned,
          buildFault, heap, tests, tpc, tcase, given, seen>>

dispatchVars == <<pc, step, sub, raw, result, idx, rechecked, ran, lowered,
                  verdict, fault>>
buildVars == <<pages, page_slugs_list, defined, building, todo, cleaned,
               buildFault>>
frameVars == <<heap, tests, tpc, tcase, given, seen>>

----------------------------------------------------------------------------
(* Bounds *)

MaxLen == 2
MaxMessages == 2
MaxPages == 3
MaxSteps == 2
MaxMembers == 2
MaxTests == 2
MaxCalls == 2

----------------------------------------------------------------------------
(* Source texts.  A text is a sequence of lexical items:                   *)
(*   "x" / "X"   the same identifier written in lower / upper case          *)
(*   "sq" / "dq" the same string literal in single / double quotes          *)
(*   "sp"        insignificant whitespace                                   *)
(*   "def"       a definition of the function f                             *)
(*   "$"         an item that makes the text unparseable                    *)

Tokens == {"x", "X", "sq", "dq", "sp", "def", "$"}

RECURSIVE SeqsUpTo(_, _)
SeqsUpTo(S, n) ==
    IF n = 0 THEN {<<>>}
    ELSE LET shorter == SeqsUpTo(S, n - 1)
         IN  shorter \cup {Append(s, t) : s \in shorter, t \in S}

Sources == SeqsUpTo(Tokens, MaxLen)

Range(s) == {s[i] : i \in 1..Len(s)}

\* str.lower()
LowerTok(t) == IF t = "X" THEN "x" ELSE t
lower(src) == [i \in 1..Len(src) |-> LowerTok(src[i])]

\* ast.parse: SyntaxError on an unparseable text; otherwise the tree, which
\* keeps neither whitespace nor the quote style of a literal.
Parses(src) == "$" \notin Range(src)
NodeOf(t) == IF t \in {"sq", "dq"} THEN "Str" ELSE t
RECURSIVE parse(_)
parse(src) ==
    IF src = <<>> THEN <<>>
    ELSE IF Head(src) = "sp" THEN parse(Tail(src))
         ELSE <<NodeOf(Head(src))>> \o parse(Tail(src))

\* astcheck.is_ast_like against a template obtained from ast.parse: node
\* types and field values must agree.
is_ast_like(tree, template) == tree = template

----------------------------------------------------------------------------
(* Python values returned by check(): True, False, None, a truthy non-bool *)
(* object (re.Match), or a dict(message=...).                              *)

NonDict == {"True", "False", "None", "Match"}
IsDict(v) == v \notin NonDict
\* bool(v); a dict(message=...) is non-empty
Truthy(v) == v \notin {"False", "None"}
PyBool(b) == IF b THEN "True" ELSE "False"

CaseMessage == "dict:Python is case sensitive!"
NotDefined == "dict:You must define a function"
NotFunction == "dict:is not a function"
BadSignature == "dict:The signature should be"
TestsFailed == "dict:tests failed"

Returned(v, n, l) == [out |-> "return", val |-> v, exc |-> "", ran |-> n, lowered |-> l]
Raised(e, n, l) == [out |-> "raise", val |-> "", exc |-> e, ran |-> n, lowered |-> l]

----------------------------------------------------------------------------
(* Submissions and Step classes *)

NoSolution == [id |-> "none", name |-> "", params |-> <<>>]

\* The checks a Step class can resolve `check` to.
CheckKinds == {"verbatim", "exercise", "input_matches", "function_tree"}

\* tree_matches with the lower-cased comparison made first
tree_matches_lower_first(input, template) ==
    IF ~Parses(input) \/ ~Parses(template) THEN Raised("SyntaxError", 0, FALSE)
    ELSE IF is_ast_like(parse(lower(input)), parse(lower(template)))
         THEN Returned(CaseMessage, 0, TRUE)
    ELSE IF is_ast_like(parse(input), parse(template)) THEN Returned("True", 0, TRUE)
    ELSE Returned("None", 0, TRUE)

\* Step.tree_matches
tree_matches(input, template) ==
    IF ~Parses(input) \/ ~Parses(template) THEN Raised("SyntaxError", 0, FALSE)
    ELSE IF is_ast_like(parse(input), parse(template)) THEN Returned("True", 0, FALSE)
    ELSE IF ~Parses(lower(input)) \/ ~Parses(lower(template))
         THEN Raised("SyntaxError", 0, TRUE)
    ELSE IF is_ast_like(parse(lower(input)), parse(lower(template)))
         THEN Returned(CaseMessage, 0, TRUE)
    ELSE Returned("None", 0, TRUE)

\* Step.matches_program
matches_program(cls, s) == tree_matches(s.input, cls.program)

\* VerbatimStep.check
VerbatimCheck(cls, s) == matches_program(cls, s)

\* Step.input_matches with remove_spaces=True, for a literal pattern
input_matches(input, pattern) ==
    IF SelectSeq(input, LAMBDA t : t # "sp") = pattern THEN "Match" ELSE "None"

\* Step.function_tree
function_tree(cls, s) ==
    IF cls.solution.name = "solution" THEN Raised("ValueError", 0, FALSE)
    ELSE IF ~Parses(s.input) THEN Raised("SyntaxError", 0, FALSE)
    ELSE IF Cardinality({i \in 1..Len(parse(s.input)) : parse(s.input)[i] = "def"}) # 1
         THEN Raised("ValueError", 0, FALSE)
    ELSE Returned("True", 0, FALSE)

\* ", ".join(param_names)
RECURSIVE Join(_)
Join(names) ==
    IF names = <<>> THEN ""
    ELSE IF Len(names) = 1 THEN names[1]
    ELSE names[1] \o ", " \o Join(Tail(names))

\* basic_signature
basic_signature(params, remove_first) ==
    LET param_names == IF remove_first /\ params # <<>> THEN Tail(params) ELSE params
    IN  "(" \o Join(param_names) \o ")"

\* inspect.signature of the bound method self.solution: the first parameter
\* is bound and not reported.
BoundParams(solution) == IF solution.params = <<>> THEN <<>> ELSE Tail(solution.params)

\* main.exercises.check_exercise: True, or a report of the failing test.
\* With functionise the submitted text is compiled into the candidate, which
\* is a SyntaxError for a text that does not parse.
CheckExerciseResults == {"True", TestsFailed}
check_exercise(cls, s, functionise) ==
    IF functionise /\ ~Parses(s.input) THEN Raised("SyntaxError", 1, FALSE)
    ELSE Returned(s.oracle[cls.solution.id], 1, FALSE)

\* ExerciseStep.check without the comparison of signatures
ExerciseCheck_no_signature(cls, s) ==
    LET function_name == cls.solution.name IN
    IF s.code_source = "shell" THEN Returned("False", 0, FALSE)
    ELSE IF function_name = "solution" THEN check_exercise(cls, s, TRUE)
    ELSE IF function_name \notin DOMAIN s.locals THEN Returned(NotDefined, 0, FALSE)
    ELSE IF ~s.locals[function_name].isfunction THEN Returned(NotFunction, 0, FALSE)
    ELSE check_exercise(cls, s, FALSE)

\* ExerciseStep.check
ExerciseCheck(cls, s) ==
    LET function_name == cls.solution.name IN
    IF s.code_source = "shell" THEN Returned("False", 0, FALSE)
    ELSE IF function_name = "solution" THEN check_exercise(cls, s, TRUE)
    ELSE IF function_name \notin DOMAIN s.locals THEN Returned(NotDefined, 0, FALSE)
    ELSE IF ~s.locals[function_name].isfunction THEN Returned(NotFunction, 0, FALSE)
    ELSE IF basic_signature(s.locals[function_name].params, FALSE)
              # basic_signature(BoundParams(cls.solution), FALSE)
         THEN Returned(BadSignature, 0, FALSE)
    ELSE check_exercise(cls, s, FALSE)

\* self.check(), by the class the method resolves to
Check(cls, s) ==
    CASE cls.kind = "verbatim" -> VerbatimCheck(cls, s)
      [] cls.kind = "exercise" -> ExerciseCheck(cls, s)
      [] cls.kind = "input_matches" ->
            Returned(input_matches(s.input, cls.pattern), 0, FALSE)
      [] cls.kind = "function_tree" -> function_tree(cls, s)

\* MessageStep.message
message(message_cls) == "dict:" \o message_cls.text

\* MessageStep.check_message: cls(*step.args).check()
check_message(message_cls, args) == Check(message_cls, args)

\* bool(result) applied to every result
Normalize_always(v) == PyBool(Truthy(v))

\* lines 260-261
Normalize(v) == IF ~IsDict(v) THEN PyBool(Truthy(v)) ELSE v

\* the comparison with after_success left out
EqualsAfterSuccess_ignored(v, after_success) == TRUE

\* result == message_cls.after_success: a dict never equals a bool
EqualsAfterSuccess(v, after_success) == v = PyBool(after_success)

----------------------------------------------------------------------------
(* The Step classes and submissions the calls are drawn from *)

\* Template programs: parseable, stripped texts
Programs == {p \in SeqsUpTo({"x", "X", "sq", "dq"}, MaxLen) : p # <<>>}
ShortSources == SeqsUpTo(Tokens, 1)
DefSources == SeqsUpTo({"def", "$"}, MaxLen)

CodeSources == {"shell", "editor"}
ExpectedCodeSources == {"None", "shell"}

SolutionF == [id |-> "parent", name |-> "f", params |-> <<"_", "x">>]
SolutionScript == [id |-> "parent", name |-> "solution", params |-> <<"_", "x">>]
SolutionOfMessage(parent) == [parent EXCEPT !.id = "message"]
SolutionIds == {"parent", "message"}

ParamLists == {<<"x">>, <<"x", "y">>}
Bindings == {[isfunction |-> FALSE, params |-> <<>>]}
              \cup {[isfunction |-> TRUE, params |-> ps] : ps \in ParamLists}
Locals == {<<>>} \cup {[n \in {"f"} |-> b] : b \in Bindings}
NoOracle == [i \in SolutionIds |-> "True"]
Oracles == [SolutionIds -> CheckExerciseResults]

MessageText(i) == "m" \o ToString(i)

\* Message classes as combined with their parent by clean_step_class
\* (class inner_cls(inner_cls, cls)): what the message does not define
\* itself it takes from the parent.
MessageChecks(parent) ==
    IF parent.solution = NoSolution
    THEN {[kind |-> "verbatim", program |-> p, pattern |-> <<>>, solution |-> NoSolution]
             : p \in {<<"x">>, <<"sq">>}}
         \cup {[kind |-> "input_matches", program |-> <<"x">>, pattern |-> <<"X">>,
                solution |-> NoSolution]}
    ELSE {[kind |-> "exercise", program |-> <<>>, pattern |-> <<>>,
           solution |-> SolutionOfMessage(parent.solution)],
          [kind |-> "function_tree", program |-> <<"def">>, pattern |-> <<>>,
           solution |-> parent.solution]}

MessageClass(c, after, i) ==
    [after_success |-> after, text |-> MessageText(i), kind |-> c.kind,
     program |-> c.program, pattern |-> c.pattern, solution |-> c.solution]

RECURSIVE MessageLists(_, _)
MessageLists(parent, n) ==
    IF n = 0 THEN {<<>>}
    ELSE LET shorter == MessageLists(parent, n - 1)
         IN  shorter \cup
             {Append(ms, MessageClass(c, after, Len(ms) + 1)) :
                 ms \in {l \in shorter : Len(l) = n - 1},
                 c \in MessageChecks(parent), after \in BOOLEAN}

StepClass(kind, program, pattern, solution, ecs) ==
    [kind |-> kind, program |-> program, pattern |-> pattern, solution |-> solution,
     expected_code_source |-> ecs, messages |-> <<>>]

\* VerbatimSteps without messages, over every template
PlainVerbatimSteps ==
    {StepClass("verbatim", p, <<>>, NoSolution, ecs) :
        p \in Programs, ecs \in ExpectedCodeSources}

BareParents ==
    {StepClass("verbatim", <<"X">>, <<>>, NoSolution, ecs) : ecs \in ExpectedCodeSources}
    \cup {StepClass("input_matches", <<"X">>, <<"X">>, NoSolution, ecs)
             : ecs \in ExpectedCodeSources}
    \cup {StepClass("exercise", <<>>, <<>>, sol, ecs) :
             sol \in {SolutionF, SolutionScript}, ecs \in ExpectedCodeSources}

StepsWithMessages ==
    UNION {{[parent EXCEPT !.messages = ms] : ms \in MessageLists(parent, MaxMessages)}
              : parent \in BareParents}

StepClasses == PlainVerbatimSteps \cup StepsWithMessages

Submission(input, code_source, locals, oracle) ==
    [input |-> input, code_source |-> code_source, locals |-> locals, oracle |-> oracle]

\* The submissions a call on stp is drawn from: the fields no check of stp
\* reads are held at one value.
SubmissionsFor(stp) ==
    IF stp.solution # NoSolution
    THEN {Submission(i, cs, l, o) :
             i \in DefSources, cs \in CodeSources, l \in Locals,
             o \in {o \in Oracles :
                      (\A k \in 1..Len(stp.messages) : stp.messages[k].kind # "exercise")
                          => o["message"] = "True"}}
    ELSE {Submission(i, cs, <<>>, NoOracle) :
             i \in (IF stp.messages = <<>> THEN Sources ELSE ShortSources),
             cs \in CodeSources}

----------------------------------------------------------------------------
(* Page.check_step and Step.check_with_messages *)

NoValue == ""

\* no handler / a handler for every Exception
Handles_nothing(exc) == FALSE
Handles_everything(exc) == TRUE

\* except SyntaxError (line 224)
Handles(exc) == exc = "SyntaxError"

\* line 256
OriginOk(stp, s) == stp.expected_code_source \in {"None", s.code_source}

\* Lines 220-221: look the Step class up and construct the instance.
CheckStep ==
    /\ pc = "idle"
    /\ \E stp \in StepClasses : \E s \in SubmissionsFor(stp) :
          /\ step' = stp
          /\ sub' = s
    /\ pc' = "check_with_messages"
    /\ UNCHANGED <<raw, result, idx, rechecked, ran, lowered, verdict, fault>>
    /\ UNCHANGED <<buildVars, frameVars>>

\* Lines 256-257
OriginMismatch ==
    /\ pc = "check_with_messages"
    /\ ~OriginOk(step, sub)
    /\ verdict' = "False"
    /\ pc' = "returned"
    /\ UNCHANGED <<step, sub, raw, result, idx, rechecked, ran, lowered, fault>>
    /\ UNCHANGED <<buildVars, frameVars>>

\* Lines 259-261, with the handler of check_step for a raising check()
RunCheck ==
    /\ pc = "check_with_messages"
    /\ OriginOk(step, sub)
    /\ LET o == Check(step, sub) IN
          /\ ran' = o.ran
          /\ lowered' = o.lowered
          /\ IF o.out = "raise"
             THEN /\ IF Handles(o.exc)
                     THEN verdict' = "False" /\ pc' = "caught" /\ fault' = fault
                     ELSE fault' = o.exc /\ pc' = "raised" /\ verdict' = verdict
                  /\ UNCHANGED <<raw, result, idx>>
             ELSE /\ raw' = o.val
                  /\ result' = Normalize(o.val)
                  /\ idx' = 1
                  /\ pc' = "scan"
                  /\ UNCHANGED <<verdict, fault>>
    /\ UNCHANGED <<step, sub, rechecked>>
    /\ UNCHANGED <<buildVars, frameVars>>

\* Lines 262-264: one iteration of the loop over self.messages
ScanMessage ==
    /\ pc = "scan"
    /\ idx <= Len(step.messages)
    /\ LET message_cls == step.messages[idx] IN
          IF EqualsAfterSuccess(result, message_cls.after_success)
          THEN LET o == check_message(message_cls, sub) IN
                  /\ rechecked' = Append(rechecked, idx)
                  /\ IF o.out = "raise"
                     THEN /\ IF Handles(o.exc)
                             THEN verdict' = "False" /\ pc' = "caught" /\ fault' = fault
                             ELSE fault' = o.exc /\ pc' = "raised" /\ verdict' = verdict
                          /\ idx' = idx
                     ELSE IF Truthy(o.val)
                          THEN /\ verdict' = message(message_cls)
                               /\ pc' = "returned"
                               /\ UNCHANGED <<idx, fault>>
                          ELSE /\ idx' = idx + 1
                               /\ UNCHANGED <<pc, verdict, fault>>
          ELSE /\ idx' = idx + 1
               /\ UNCHANGED <<pc, verdict, fault, rechecked>>
    /\ UNCHANGED <<step, sub, raw, result, ran, lowered>>
    /\ UNCHANGED <<buildVars, frameVars>>

\* Line 265
ReturnResult ==
    /\ pc = "scan"
    /\ idx > Len(step.messages)
    /\ verdict' = result
    /\ pc' = "returned"
    /\ UNCHANGED <<step, sub, raw, result, idx, rechecked, ran, lowered, fault>>
    /\ UNCHANGED <<buildVars, frameVars>>

NoStep == StepClass("", <<>>, <<>>, NoSolution, "None")
NoSubmission == Submission(<<>>, "", <<>>, NoOracle)

\* The call has ended; the transient Step instance is dropped.
Respond ==
    /\ pc \in {"returned", "caught", "raised"}
    /\ pc' = "idle"
    /\ step' = NoStep
    /\ sub' = NoSubmission
    /\ raw' = NoValue /\ result' = NoValue /\ idx' = 0 /\ rechecked' = <<>>
    /\ ran' = 0 /\ lowered' = FALSE /\ verdict' = NoValue /\ fault' = NoValue
    /\ UNCHANGED <<buildVars, frameVars>>

DispatchInit ==
    /\ pc = "idle"
    /\ step = NoStep
    /\ sub = NoSubmission
    /\ raw = NoValue /\ result = NoValue /\ idx = 0 /\ rechecked = <<>>
    /\ ran = 0 /\ lowered = FALSE /\ verdict = NoValue /\ fault = NoValue

BuildIdle ==
    /\ pages = <<>>
    /\ page_slugs_list = <<>>
    /\ defined = <<>>
    /\ building = 0
    /\ todo = 0
    /\ cleaned = [ok |-> FALSE, cls |-> <<>>, messages |-> <<>>]
    /\ buildFault = FALSE

FrameIdle ==
    /\ heap = <<>>
    /\ tests = <<>>
    /\ tpc = <<>>
    /\ tcase = <<>>
    /\ given = <<>>
    /\ seen = <<>>

Init == DispatchInit /\ BuildIdle /\ FrameIdle

Next ==
    \/ CheckStep
    \/ OriginMismatch
    \/ RunCheck
    \/ ScanMessage
    \/ ReturnResult
    \/ Respond

Spec == Init /\ [][Next]_vars

----------------------------------------------------------------------------
(* Properties of the dispatch *)

Ended == pc \in {"returned", "caught", "raised"}
Checked == pc \in {"scan", "returned", "caught", "raised"} /\ raw # NoValue

IsBool(v) == v \in {"True", "False"}
IsMessage(v) == v \notin {"True", "False", "None", "Match", NoValue}
BoolOf(v) == IF v \in {"False", "None"} THEN "False" ELSE "True"
Outcome(v) == IF IsMessage(v) THEN v ELSE BoolOf(v)
AfterSuccessValue(m) == IF m.after_success THEN "True" ELSE "False"

\* The message at position i is triggered by the outcome and its own check,
\* made on the arguments of the submission, returns a true value.
Recheck(i) == Check(step.messages[i], sub)
Triggered(i) == AfterSuccessValue(step.messages[i]) = Outcome(raw)
Wins(i) == Triggered(i) /\ Recheck(i).out = "return" /\ Recheck(i).val \notin {"False", "None"}
Winners == {i \in 1..Len(step.messages) : Wins(i)}
FirstWinner == CHOOSE i \in Winners : \A j \in Winners : i <= j

\* C1: when check_with_messages returns for a submission that passed the
\* origin check, it returns the payload of the first message whose
\* after_success equals the outcome and whose own check on the same
\* submission passes; with no such message it returns the result of check().
C1_FirstTriggeredMessageWins ==
    (pc = "returned" /\ OriginOk(step, sub)) =>
        /\ Winners # {} => verdict = "dict:" \o step.messages[FirstWinner].text
        /\ Winners = {} => verdict = Outcome(raw)

\* A second message wins after the first one was consulted and failed.
C1_Witness ==
    /\ pc = "returned"
    /\ Len(step.messages) >= 2
    /\ rechecked = <<1, 2>>
    /\ verdict = "dict:" \o step.messages[2].text

\* C4 as stated: the value compared with after_success is always a boolean.
C4_AlwaysBoolean == (pc = "scan") => IsBool(result)

\* C4 amended: the result of check() is made a boolean only when it is not a
\* structured diagnostic; a diagnostic is compared as it is, equals no
\* after_success, no message is consulted and the diagnostic is returned.
C4_DiagnosticIsKept ==
    /\ (pc = "scan") => (IsBool(result) <=> ~IsMessage(raw))
    /\ (pc \in {"scan", "returned"} /\ raw # NoValue /\ IsMessage(raw)) =>
          /\ result = raw
          /\ rechecked = <<>>
          /\ pc = "returned" => verdict = raw

\* A diagnostic stands although a message for the successful outcome passes
\* its own check.
C4_Witness ==
    /\ pc = "returned"
    /\ IsMessage(raw)
    /\ verdict = raw
    /\ \E i \in 1..Len(step.messages) :
          /\ step.messages[i].after_success
          /\ Recheck(i).out = "return"
          /\ Recheck(i).val \notin {"False", "None"}

RECURSIVE ScanFault(_)
ScanFault(i) ==
    IF i > Len(step.messages) THEN NoValue
    ELSE IF ~Triggered(i) THEN ScanFault(i + 1)
    ELSE IF Recheck(i).out = "raise" THEN Recheck(i).exc
    ELSE IF Recheck(i).val \notin {"False", "None"} THEN NoValue
    ELSE ScanFault(i + 1)
CallFault ==
    IF ~OriginOk(step, sub) THEN NoValue
    ELSE IF Check(step, sub).out = "raise" THEN Check(step, sub).exc
    ELSE ScanFault(1)

\* C3 as stated: no call to check_step ends by raising.
C3_NothingEscapes == pc # "raised"

\* C3 amended: check_step catches SyntaxError alone and answers False; any
\* other exception of check() or of a message's check leaves check_step.
C3_OnlySyntaxErrorCaught ==
    Ended =>
        /\ CallFault = "SyntaxError" => (pc = "caught" /\ verdict = "False")
        /\ CallFault \notin {"SyntaxError", NoValue} => (pc = "raised" /\ fault = CallFault)
        /\ CallFault = NoValue => pc = "returned"

C3_Witness ==
    /\ pc = "raised"
    /\ fault = "ValueError"
    /\ step.solution.name = "f"
    /\ rechecked # <<>>

C6_PreChecksInOrder ==
    (Checked /\ step.kind = "exercise" /\ step.solution.name # "solution"
        /\ sub.code_source # "shell" /\ OriginOk(step, sub)) =>
        LET name == step.solution.name
            bound == name \in DOMAIN sub.locals
            isfunc == bound /\ sub.locals[name].isfunction
            sameSig == isfunc /\ sub.locals[name].params = Tail(step.solution.params)
        IN  /\ ~bound => (raw = NotDefined /\ ran = 0)
            /\ (bound /\ ~isfunc) => (raw = NotFunction /\ ran = 0)
            /\ (isfunc /\ ~sameSig) => (raw = BadSignature /\ ran = 0)
            /\ sameSig => (ran = 1 /\ raw = sub.oracle[step.solution.id])
            /\ ran = 1 => sameSig

C6_Witness ==
    /\ Checked
    /\ step.kind = "exercise"
    /\ step.solution.name = "f"
    /\ "f" \in DOMAIN sub.locals
    /\ sub.locals["f"].isfunction
    /\ raw = BadSignature
    /\ ran = 0

----------------------------------------------------------------------------
(* Build-time normalisation: clean_step_class and PageMeta.__init__ *)

\* Class attribute names, by their rank in the order in which
\* inspect.getmembers reports them (sorted by name).
MemberNames == 1..MaxMembers

\* A MessageStep class nested in a Step class, as declared.
MemberDecls ==
    [name : MemberNames, ownSolution : BOOLEAN, inhSolution : {FALSE},
     program : BOOLEAN]

\* The nested classes of a Step class in declaration order; a class body
\* binds each name once.
RECURSIVE MemberLists(_)
MemberLists(n) ==
    IF n = 0 THEN {<<>>}
    ELSE LET shorter == MemberLists(n - 1)
         IN  shorter \cup
             {Append(ms, m) : ms \in {l \in shorter : Len(l) = n - 1}, m \in MemberDecls}
DistinctNames(ms) == \A i, j \in 1..Len(ms) : i # j => ms[i].name # ms[j].name

\* A Step class as declared: whether its own body defines `solution`,
\* whether a base class provides one, whether cls.program is non-empty.
StepDecls ==
    {[ownSolution |-> os, inhSolution |-> is, program |-> pr, members |-> ms] :
        os \in BOOLEAN, is \in BOOLEAN, pr \in BOOLEAN,
        ms \in {l \in MemberLists(MaxMembers) : DistinctNames(l)}}

\* the assertion with solution read by attribute lookup
AssertsOk_inherited(cls) == (cls.ownSolution \/ cls.inhSolution) # cls.program

\* Lines 79-80: solution = cls.__dict__.get("solution", ""), program =
\* cls.program, assert bool(solution) ^ bool(program)
AssertsOk(cls) == cls.ownSolution # cls.program

\* Lines 121-125: class inner_cls(inner_cls, cls).  Its own body defines no
\* solution; program is the one clean_step_class set on the message class.
Combined(inner_cls, cls) ==
    [name |-> inner_cls.name,
     ownSolution |-> FALSE,
     inhSolution |-> inner_cls.ownSolution \/ cls.ownSolution \/ cls.inhSolution,
     program |-> TRUE]

\* inspect.getmembers(cls): the members sorted by name
RECURSIVE getmembers(_)
getmembers(ms) ==
    IF ms = <<>> THEN <<>>
    ELSE LET k == CHOOSE i \in 1..Len(ms) : \A j \in 1..Len(ms) : ms[i].name <= ms[j].name
             rest == [i \in 1..(Len(ms) - 1) |-> IF i < k THEN ms[i] ELSE ms[i + 1]]
         IN  <<ms[k]>> \o getmembers(rest)

NotCleaned == [ok |-> FALSE, cls |-> <<>>, messages |-> <<>>]

\* clean_step_class(cls): an AssertionError, or the messages set on cls
clean_step_class(cls) ==
    LET inner == getmembers(cls.members) IN
    IF ~AssertsOk(cls) THEN [ok |-> FALSE, cls |-> cls, messages |-> <<>>]
    ELSE IF \E i \in 1..Len(inner) :
                ~AssertsOk(inner[i]) \/ ~AssertsOk(Combined(inner[i], cls))
         THEN [ok |-> FALSE, cls |-> cls, messages |-> <<>>]
    ELSE [ok |-> TRUE, cls |-> cls,
          messages |-> [i \in 1..Len(inner) |-> Combined(inner[i], cls)]]

\* PageMeta.slug
SlugOf(d) == IF d.slug # "" THEN d.slug ELSE d.name

PageDefinitions ==
    {[name |-> "Page", slug |-> ""], [name |-> "A", slug |-> ""],
     [name |-> "B", slug |-> ""], [name |-> "B", slug |-> "A"]}

\* Lines 156-162: a class statement with metaclass PageMeta
DefinePage ==
    /\ building = 0
    /\ ~buildFault
    /\ Len(defined) < MaxPages
    /\ \E d \in PageDefinitions : \E n \in 0..MaxSteps :
          /\ defined' = Append(defined, d)
          /\ IF d.name = "Page"
             THEN UNCHANGED <<pages, page_slugs_list, building, todo>>
             ELSE /\ pages' = [sl \in DOMAIN pages \cup {SlugOf(d)} |->
                                  IF sl = SlugOf(d) THEN Len(defined) + 1 ELSE pages[sl]]
                  /\ page_slugs_list' = Append(page_slugs_list, SlugOf(d))
                  /\ building' = Len(defined) + 1
                  /\ todo' = n
    /\ UNCHANGED <<cleaned, buildFault>>
    /\ UNCHANGED <<dispatchVars, frameVars>>

\* Lines 163-165: the next step of cls.__dict__ is normalised
CleanStep ==
    /\ building # 0
    /\ ~buildFault
    /\ todo > 0
    /\ cleaned = NotCleaned
    /\ \E cls \in StepDecls :
          /\ cleaned' = clean_step_class(cls)
          /\ buildFault' = ~clean_step_class(cls).ok
    /\ UNCHANGED <<pages, page_slugs_list, defined, building, todo>>
    /\ UNCHANGED <<dispatchVars, frameVars>>

\* Lines 166-167: its name and text are recorded
RecordStep ==
    /\ building # 0
    /\ ~buildFault
    /\ cleaned # NotCleaned
    /\ todo' = todo - 1
    /\ cleaned' = NotCleaned
    /\ UNCHANGED <<pages, page_slugs_list, defined, building, buildFault>>
    /\ UNCHANGED <<dispatchVars, frameVars>>

\* Lines 169-173: assert isinstance(cls.final_text, str)
FinishPage ==
    /\ building # 0
    /\ ~buildFault
    /\ todo = 0
    /\ cleaned = NotCleaned
    /\ \E final_text_is_str \in BOOLEAN :
          /\ buildFault' = ~final_text_is_str
          /\ building' = IF final_text_is_str THEN 0 ELSE building
    /\ UNCHANGED <<pages, page_slugs_list, defined, todo, cleaned>>
    /\ UNCHANGED <<dispatchVars, frameVars>>

BuildInit ==
    /\ pages = <<>>
    /\ page_slugs_list = <<>>
    /\ defined = <<>>
    /\ building = 0
    /\ todo = 0
    /\ cleaned = NotCleaned
    /\ buildFault = FALSE

InitBuild == DispatchInit /\ BuildInit /\ FrameIdle

NextBuild ==
    \/ DefinePage
    \/ CleanStep
    \/ RecordStep
    \/ FinishPage

SpecBuild == InitBuild /\ [][NextBuild]_vars

----------------------------------------------------------------------------
(* Properties of the build *)

Names(ms) == [i \in 1..Len(ms) |-> ms[i].name]

RegisteredSlugs == 
    LET reg == SelectSeq(defined, LAMBDA d : d.name # "Page")
    IN  [i \in 1..Len(reg) |-> IF reg[i].slug # "" THEN reg[i].slug ELSE reg[i].name]

\* The first definition, by position in `defined`, registered under slug sl
FirstDefinition(sl) ==
    CHOOSE i \in 1..Len(defined) :
        /\ defined[i].name # "Page"
        /\ (IF defined[i].slug # "" THEN defined[i].slug ELSE defined[i].name) = sl
        /\ \A j \in 1..(i - 1) :
              defined[j].name = "Page"
              \/ (IF defined[j].slug # "" THEN defined[j].slug ELSE defined[j].name) # sl

\* C7: page_slugs_list holds each registered slug once, in the order of
\* definition; its slugs are the keys of pages; pages[slug] is the page first
\* registered under the slug.
C7_SlugsUniqueInRegistrationOrder ==
    /\ \A i, j \in 1..Len(page_slugs_list) :
          i # j => page_slugs_list[i] # page_slugs_list[j]
    /\ {page_slugs_list[i] : i \in 1..Len(page_slugs_list)} = DOMAIN pages
    /\ {RegisteredSlugs[i] : i \in 1..Len(RegisteredSlugs)} = DOMAIN pages
    /\ \A sl \in DOMAIN pages : pages[sl] = FirstDefinition(sl)

\* C8: after normalisation the messages of a Step are its nested Message
\* Steps in the order of their declaration, whatever their names.
C8_MessagesInDeclarationOrder ==
    cleaned.ok => Names(cleaned.messages) = Names(cleaned.cls.members)

\* A class has a reference solution / a template program, its own or inherited
HasSolution(c) == c.ownSolution \/ c.inhSolution
ExactlyOneSet(c) == HasSolution(c) # c.program
ExactlyOneOwn(c) == (c.ownSolution /\ ~c.program) \/ (~c.ownSolution /\ c.program)

\* C9 as stated: a normalised Step, and each Message Step combined with it,
\* has exactly one of solution and program set, inheritance included, and a
\* declaration with both or neither ends the build.
C9_ExactlyOneOfSolutionAndProgram ==
    (cleaned # NotCleaned) =>
        /\ cleaned.ok =>
              /\ ExactlyOneSet(cleaned.cls)
              /\ \A i \in 1..Len(cleaned.messages) : ExactlyOneSet(cleaned.messages[i])
        /\ ~ExactlyOneSet(cleaned.cls) => (~cleaned.ok /\ buildFault)

\* C9 amended: clean_step_class succeeds exactly when the Step class and
\* each nested Message Step has exactly one of: a solution defined in its
\* own body, a non-empty program attribute.  A solution reached by
\* inheritance is not counted, so the class combining a Message Step with
\* its parent always passes.  Any other declaration ends the build.
C9_ExactlyOneOfOwnSolutionAndProgram ==
    (cleaned # NotCleaned) =>
        /\ cleaned.ok <=>
              /\ ExactlyOneOwn(cleaned.cls)
              /\ \A i \in 1..Len(cleaned.cls.members) : ExactlyOneOwn(cleaned.cls.members[i])
        /\ buildFault <=> ~cleaned.ok
        /\ cleaned.ok => Len(cleaned.messages) = Len(cleaned.cls.members)

\* A declaration with both a solution of its own and a program ends the build.
C9_Witness ==
    /\ cleaned # NotCleaned
    /\ cleaned.cls.ownSolution
    /\ cleaned.cls.program
    /\ ~cleaned.ok
    /\ buildFault
    /\ building # 0

----------------------------------------------------------------------------
(* Declared tests: ExerciseStep.test_values and test_exercise, run by       *)
(* concurrent check_step calls against the built registry.                 *)

Calls == 1..MaxCalls

\* The inputs object of declared test i holds the value i; a candidate that
\* mutates the object it is given leaves Mutated in it.
Declared(i) == i
Mutated == 0

\* The reference the copy made for call c occupies; the copy of the previous
\* test case of the call is unreachable by then.
CopyRef(c) == MaxTests + c

\* the declared inputs object passed on as it is
deepcopy_alias(h, ref, c) == [ref |-> ref, heap |-> h]

\* copy.deepcopy(inputs): a new object with the same content
deepcopy(h, ref, c) ==
    [ref |-> CopyRef(c), heap |-> [h EXCEPT ![CopyRef(c)] = h[ref]]]

BuiltPages == [sl \in {"A"} |-> 1]

FrameInit ==
    /\ pages = BuiltPages
    /\ page_slugs_list = <<"A">>
    /\ defined = <<[name |-> "A", slug |-> ""]>>
    /\ building = 0
    /\ todo = 0
    /\ cleaned = NotCleaned
    /\ buildFault = FALSE
    /\ tests = [i \in 1..MaxTests |-> i]
    /\ heap = [r \in 1..(MaxTests + MaxCalls) |-> IF r <= MaxTests THEN Declared(r) ELSE Mutated]
    /\ tpc = [c \in Calls |-> "idle"]
    /\ tcase = [c \in Calls |-> 0]
    /\ given = [c \in Calls |-> 0]
    /\ seen = [c \in Calls |-> <<>>]

\* Page.check_step on an ExerciseStep reaches cls.test_exercise(func)
\* (lines 221, 259, 350-355, 381-382): the loop over test_values() starts.
TestExercise(c) ==
    /\ tpc[c] = "idle"
    /\ tpc' = [tpc EXCEPT ![c] = "next"]
    /\ tcase' = [tcase EXCEPT ![c] = 1]
    /\ seen' = [seen EXCEPT ![c] = <<>>]
    /\ UNCHANGED <<heap, tests, given>>
    /\ UNCHANGED <<dispatchVars, buildVars>>

\* Lines 370-378: test_values yields the next declared case
TestValues(c) ==
    /\ tpc[c] = "next"
    /\ tcase[c] <= Len(tests)
    /\ LET copy == deepcopy(heap, tests[tcase[c]], c) IN
          /\ heap' = copy.heap
          /\ given' = [given EXCEPT ![c] = copy.ref]
    /\ tpc' = [tpc EXCEPT ![c] = "run"]
    /\ UNCHANGED <<tests, tcase, seen>>
    /\ UNCHANGED <<dispatchVars, buildVars>>

\* Line 383: check_result(func, inputs, result) calls the candidate, which
\* may mutate the inputs it is given
CheckResult(c) ==
    /\ tpc[c] = "run"
    /\ seen' = [seen EXCEPT ![c] = Append(seen[c], heap[given[c]])]
    /\ \E v \in {heap[given[c]], Mutated} :
          heap' = [heap EXCEPT ![given[c]] = v]
    /\ tcase' = [tcase EXCEPT ![c] = tcase[c] + 1]
    /\ tpc' = [tpc EXCEPT ![c] = "next"]
    /\ UNCHANGED <<tests, given>>
    /\ UNCHANGED <<dispatchVars, buildVars>>

\* test_values is exhausted; check_step returns and its Step instance and
\* copies are dropped
TestsDone(c) ==
    /\ tpc[c] = "next"
    /\ tcase[c] > Len(tests)
    /\ tpc' = [tpc EXCEPT ![c] = "idle"]
    /\ tcase' = [tcase EXCEPT ![c] = 0]
    /\ given' = [given EXCEPT ![c] = 0]
    /\ UNCHANGED <<heap, tests, seen>>
    /\ UNCHANGED <<dispatchVars, buildVars>>

InitFrame == DispatchInit /\ FrameInit

NextFrame ==
    \E c \in Calls :
        \/ TestExercise(c)
        \/ TestValues(c)
        \/ CheckResult(c)
        \/ TestsDone(c)

SpecFrame == InitFrame /\ [][NextFrame]_vars

\* C10: check_step calls, in any interleaving, leave the registry as built:
\* pages, page_slugs_list and the declared tests keep their content, and
\* every test case of every call receives the declared inputs, whatever the
\* candidate did to the inputs of earlier cases.
C10_RegistryUnchanged ==
    /\ pages = BuiltPages
    /\ page_slugs_list = <<"A">>
    /\ tests = [i \in 1..MaxTests |-> i]
    /\ \A i \in 1..MaxTests : heap[tests[i]] = Declared(i)
    /\ \A c \in Calls : \A k \in 1..Len(seen[c]) : seen[c][k] = Declared(k)
    /\ \A c \in Calls : tpc[c] = "run" => given[c] \notin {tests[i] : i \in 1..MaxTests}

\* A call ends after its candidate mutated the inputs of a test case while
\* another call is running a test case.
C10_Witness ==
    \E c, d \in Calls :
        /\ c # d
        /\ tpc[c] = "idle"
        /\ Len(seen[c]) = MaxTests
        /\ heap[CopyRef(c)] = Mutated
        /\ tpc[d] = "run"
        /\ tcase[d] = MaxTests

====
